---- MODULE Spec2Model ----
(***************************************************************************)
(* Shoe Store API (src/main.py, src/schemas.py): a FastAPI service over a  *)
(* document store.  The state is the module-level store handle `db`, the   *)
(* "shoe" collection, the store's identifier allocator, the position of    *)
(* every in-flight seed call, and the last response sent.                  *)
(*                                                                         *)
(* Numbers: prices are in cents (139.99 -> 13999), ratings and sizes in    *)
(* tenths (4.6 -> 46, le=5 -> 50), so float comparisons stay exact.        *)
(* Optional[T] is a sequence: <<>> is None, <<v>> is the value v.          *)
(* A Python dict / Mongo document is a function from keys to values.       *)
(***************************************************************************)
EXTENDS Integers, Sequences, FiniteSets, TLC

VARIABLES db, shoe, oid_counter, clock, pc, count, response

vars == <<db, shoe, oid_counter, clock, pc, count, response>>

(* ------------------------------ bounds -------------------------------- *)

\* request threads that can be inside seed_demo_data at the same time
NumWorkers == 2
\* successful create-shoe calls in one run
MaxCreated == 2
\* largest explicit `limit` query value tried (besides the default)
MaxLimit == 2
\* longest store error text tried by the diagnostics probe
MaxErrLen == 52
\* most collection names the store reports to the diagnostics probe
MaxCollections == 11

Workers == 1..NumWorkers

(* ----------------------------- python values -------------------------- *)

None == <<>>

Some(v) == <<v>>

EmptyDict == [k \in {} |-> TRUE]

\* s[:n]
Slice(s, n) == SubSeq(s, 1, IF Len(s) < n THEN Len(s) ELSE n)

\* a returned value / a raised exception
Ok(v) == [ok |-> TRUE, v |-> v]

Raise(exc, status_code, detail) ==
    [ok |-> FALSE, exc |-> exc, status_code |-> status_code, detail |-> detail]

\* What FastAPI sends for a handler's outcome: the route's status code with the
\* returned body, an HTTPException's own status and detail, 422 for a request
\* body that fails the declared model, 500 for any other exception.
Respond(op, req, success_status, result) ==
    IF result.ok
    THEN [op |-> op, req |-> req, status |-> success_status, body |-> result.v]
    ELSE IF result.exc = "HTTPException"
    THEN [op |-> op, req |-> req, status |-> result.status_code,
          body |-> [detail |-> result.detail]]
    ELSE IF result.exc = "RequestValidationError"
    THEN [op |-> op, req |-> req, status |-> 422,
          body |-> [detail |-> result.detail]]
    ELSE [op |-> op, req |-> req, status |-> 500,
          body |-> [detail |-> "Internal Server Error"]]

(* ------------------------------- the store ---------------------------- *)

HexDigits ==
    <<"0", "1", "2", "3", "4", "5", "6", "7", "8", "9", "a", "b", "c", "d", "e", "f">>

RECURSIVE HexStr(_, _)
HexStr(n, width) ==
    IF width = 0 THEN <<>>
    ELSE Append(HexStr(n \div 16, width - 1), HexDigits[(n % 16) + 1])

\* the store's native identifier
ObjectId(n) == [oid |-> n]

\* str(ObjectId): 24 hexadecimal characters
str_oid(o) == HexStr(o.oid, 24)

StoreError == Raise("PyMongoError", 0, "store call failed")

\* collection.insert_one / insert_many: every document gets a fresh _id
RECURSIVE with_ids(_, _)
with_ids(docs, next) ==
    IF docs = <<>> THEN <<>>
    ELSE <<("_id" :> ObjectId(next)) @@ Head(docs)>> \o with_ids(Tail(docs), next + 1)

matches(d, filter_dict) ==
    \A k \in DOMAIN filter_dict : k \in DOMAIN d /\ d[k] = filter_dict[k]

\* collection.find(filter_dict).limit(limit), natural order
find(coll, filter_dict, limit) ==
    LET Test(d) == matches(d, filter_dict)
    IN  Slice(SelectSeq(coll, Test), limit)

\* collection.distinct(key): every value once, in order of first appearance
RECURSIVE distinct(_, _)
distinct(coll, key) ==
    IF coll = <<>> THEN <<>>
    ELSE LET front == distinct(SubSeq(coll, 1, Len(coll) - 1), key)
             v == coll[Len(coll)][key]
         IN  IF \E i \in 1..Len(front) : front[i] = v THEN front ELSE Append(front, v)

count_documents(coll) == Len(coll)

(* ----------------------------- specification -------------------------- *)

NoResponse == [op |-> "none", req |-> None, status |-> 0, body |-> None]

Init ==
    /\ db \in {"None", "db"}
    /\ shoe = <<>>
    /\ oid_counter = 1
    /\ clock = 1
    /\ pc = [w \in Workers |-> "idle"]
    /\ count = [w \in Workers |-> 0]
    /\ response = NoResponse

(* ----------------------------- diagnostics ---------------------------- *)

\* str(e) of a store exception: a text of n characters
error_text(n) == [i \in 1..n |-> HexDigits[(i % 16) + 1]]

\* what db.list_collection_names() can answer: n names
collection_names(n) == [i \in 1..n |-> IF i = 1 THEN "shoe" ELSE ToString(i)]

ErrLens == {0, 49, 50, 51, MaxErrLen}

CollectionCounts == {0, 1, 9, 10, MaxCollections}

\* the outcomes of db.list_collection_names()
ListCollectionOutcomes ==
    {Ok(collection_names(n)) : n \in CollectionCounts}
        \cup {Raise("PyMongoError", 0, error_text(n)) : n \in ErrLens}

\* test_database without its try/except: a failing probe raises
test_database_unguarded(dbv, lcn, url_set, name_set) ==
    IF dbv /= "None" /\ ~lcn.ok
    THEN lcn
    ELSE Ok([backend |-> "Running",
             database |-> IF dbv = "None" THEN <<"Available but not initialized", "">>
                          ELSE <<"Connected & Working", "">>,
             database_url |-> IF url_set THEN "Set" ELSE "Not Set",
             database_name |-> IF name_set THEN "Set" ELSE "Not Set",
             connection_status |-> IF dbv = "None" THEN "Not Connected" ELSE "Connected",
             collections |-> IF dbv = "None" THEN <<>> ELSE Slice(lcn.v, 10)])

\* GET /test, the handler's body.  dbv is the module's db, lcn the outcome of
\* db.list_collection_names(), url_set / name_set whether os.getenv finds
\* DATABASE_URL / DATABASE_NAME.  The "database" entry is <<text, detail>>.
test_database(dbv, lcn, url_set, name_set) ==
    LET r0 == [backend |-> "Running",
               database |-> <<"Not Available", "">>,
               database_url |-> "None",
               database_name |-> "None",
               connection_status |-> "Not Connected",
               collections |-> <<>>]
        r1 == IF dbv /= "None"
              THEN LET a == [r0 EXCEPT !.database = <<"Available", "">>,
                                       !.database_url = "Configured",
                                       !.database_name = "db.name",
                                       !.connection_status = "Connected"]
                   IN  IF lcn.ok
                       THEN [a EXCEPT !.collections = Slice(lcn.v, 10),
                                      !.database = <<"Connected & Working", "">>]
                       ELSE [a EXCEPT !.database =
                                <<"Connected but Error: ", Slice(lcn.detail, 50)>>]
              ELSE [r0 EXCEPT !.database = <<"Available but not initialized", "">>]
        r2 == [r1 EXCEPT !.database_url = IF url_set THEN "Set" ELSE "Not Set",
                         !.database_name = IF name_set THEN "Set" ELSE "Not Set"]
    IN  Ok(r2)

diagnostics ==
    /\ response = NoResponse
    /\ \E lcn \in ListCollectionOutcomes, url_set \in BOOLEAN, name_set \in BOOLEAN :
          response' = Respond("test_database", [lcn |-> lcn], 200,
                              test_database(db, lcn, url_set, name_set))
    /\ UNCHANGED <<db, shoe, oid_counter, clock, pc, count>>

(* ------------------------------- schemas ------------------------------ *)

\* JSON values of a request body, each a record whose one key is its JSON type
S(v) == [str |-> v]

N(v) == [num |-> v]

B(v) == [bool |-> v]

Null == [null |-> None]

json_type(tv) == CHOOSE t \in {"str", "num", "bool", "null"} : t \in DOMAIN tv

\* The fields ShoeCreate and Shoe both declare: type, whether required, whether
\* None is accepted, and the default.
ShoeFields ==
    [name        |-> [type |-> "str",  required |-> TRUE,  nullable |-> FALSE, default |-> None],
     brand       |-> [type |-> "str",  required |-> TRUE,  nullable |-> FALSE, default |-> None],
     price       |-> [type |-> "num",  required |-> TRUE,  nullable |-> FALSE, default |-> None],
     description |-> [type |-> "str",  required |-> FALSE, nullable |-> TRUE,  default |-> None],
     images      |-> [type |-> "list", required |-> FALSE, nullable |-> FALSE, default |-> <<>>],
     colors      |-> [type |-> "list", required |-> FALSE, nullable |-> FALSE, default |-> <<>>],
     sizes       |-> [type |-> "list", required |-> FALSE, nullable |-> FALSE, default |-> <<>>],
     featured    |-> [type |-> "bool", required |-> FALSE, nullable |-> FALSE, default |-> FALSE],
     rating      |-> [type |-> "num",  required |-> FALSE, nullable |-> TRUE,  default |-> None],
     in_stock    |-> [type |-> "bool", required |-> FALSE, nullable |-> FALSE, default |-> TRUE]]

\* a body value is acceptable for field f
type_ok(f, tv) ==
    \/ json_type(tv) = ShoeFields[f].type
    \/ json_type(tv) = "null" /\ ShoeFields[f].nullable

\* the Python value a validated body value becomes
py_value(f, tv) ==
    IF json_type(tv) = "null" THEN None
    ELSE IF ShoeFields[f].nullable THEN Some(tv[json_type(tv)])
    ELSE tv[json_type(tv)]

\* ShoeCreate, the request-body model of POST /api/shoes, followed by
\* model_dump(): every required field present, every given field of its type,
\* no range constraint on any field.
ShoeCreate(body) ==
    IF /\ \A f \in DOMAIN ShoeFields : ShoeFields[f].required => f \in DOMAIN body
       /\ \A f \in DOMAIN body : f \in DOMAIN ShoeFields => type_ok(f, body[f])
    THEN Ok([f \in DOMAIN ShoeFields |->
                IF f \in DOMAIN body THEN py_value(f, body[f]) ELSE ShoeFields[f].default])
    ELSE Raise("RequestValidationError", 422, "field required / invalid type")

\* Shoe without its ge / le constraints
Shoe_unconstrained(d) == Ok(d)

\* Shoe(**d): Field(..., ge=0) on price, Field(None, ge=0, le=5) on rating
Shoe(d) ==
    IF /\ d.price >= 0
       /\ d.rating /= None => (d.rating[1] >= 0 /\ d.rating[1] <= 50)
    THEN Ok(d)
    ELSE Raise("ValidationError", 0, "price / rating out of range")

(* ------------------------------ create shoe --------------------------- *)

\* create_document(collection_name, data): inserts one document and returns
\* its new identifier as a string; raises when the store is not available.
create_document(dbv, coll, next, doc, store_ok) ==
    IF dbv = "None" \/ ~store_ok
    THEN [result |-> StoreError, coll |-> coll, next |-> next]
    ELSE [result |-> Ok(str_oid(ObjectId(next))),
          coll |-> coll \o with_ids(<<doc>>, next),
          next |-> next + 1]

\* POST /api/shoes, the handler with its request-body validation
create_shoe_handler(dbv, coll, next, body, store_ok) ==
    LET payload == ShoeCreate(body)
    IN  IF ~payload.ok
        THEN [result |-> payload, coll |-> coll, next |-> next]
        ELSE LET s == Shoe(payload.v)
             IN  IF ~s.ok
                 THEN [result |-> s, coll |-> coll, next |-> next]
                 ELSE LET c == create_document(dbv, coll, next, s.v, store_ok)
                      IN  [result |-> IF c.result.ok THEN Ok([id |-> c.result.v])
                                      ELSE c.result,
                           coll |-> c.coll, next |-> c.next]

\* request bodies tried
ValidBodies ==
    <<[name |-> S("Runner"), brand |-> S("Nike"), price |-> N(0)],
     [name |-> S("Court"), brand |-> S("Adidas"), price |-> N(8950),
      featured |-> B(TRUE), rating |-> N(50)],
     [name |-> S("Trail"), brand |-> S(""), price |-> N(100), rating |-> N(0)]>>

MalformedBodies ==
    <<[brand |-> S("Nike"), price |-> N(100)],
     [name |-> S("Runner"), price |-> N(100)],
     [name |-> S("Runner"), brand |-> S("Nike")],
     [name |-> S("Runner"), brand |-> S("Nike"), price |-> S("cheap")],
     [name |-> N(7), brand |-> S("Nike"), price |-> N(100)]>>

OutOfRangeBodies ==
    <<[name |-> S("Runner"), brand |-> S("Nike"), price |-> N(-1)],
     [name |-> S("Runner"), brand |-> S("Nike"), price |-> N(100), rating |-> N(-1)],
     [name |-> S("Runner"), brand |-> S("Nike"), price |-> N(100), rating |-> N(51)]>>

Bodies == ValidBodies \o MalformedBodies \o OutOfRangeBodies

\* the body passes both models
accepted(body) == ShoeCreate(body).ok /\ Shoe(ShoeCreate(body).v).ok

\* documents written by create-shoe carry no created_at; seeded ones do
created(coll) == SelectSeq(coll, LAMBDA d : "created_at" \notin DOMAIN d)

create_shoe ==
    /\ response = NoResponse
    /\ \E i \in 1..Len(Bodies), store_ok \in BOOLEAN :
          /\ accepted(Bodies[i]) => Len(created(shoe)) < MaxCreated
          /\ LET body == Bodies[i]
                 h == create_shoe_handler(db, shoe, oid_counter, body, store_ok)
             IN  /\ response' = Respond("create_shoe", [body |-> body], 201, h.result)
                 /\ shoe' = h.coll
                 /\ oid_counter' = h.next
    /\ UNCHANGED <<db, clock, pc, count>>

(* ------------------------------ list shoes ---------------------------- *)

\* Python truthiness of an Optional[str]: None and "" are both false
truthy(opt) == opt /= None /\ opt[1] /= ""

\* filter_dict built with `if featured:` in place of `if featured is not None:`
build_filter_truthy_featured(brand, featured) ==
    LET f1 == IF truthy(brand) THEN "brand" :> brand[1] ELSE EmptyDict
    IN  IF featured /= None /\ featured[1] THEN f1 @@ ("featured" :> TRUE) ELSE f1

\* filter_dict of list_shoes
build_filter(brand, featured) ==
    LET f1 == IF truthy(brand) THEN "brand" :> brand[1] ELSE EmptyDict
    IN  IF featured /= None THEN f1 @@ ("featured" :> featured[1]) ELSE f1

\* get_documents(collection_name, filter_dict, limit): up to `limit` matching
\* documents in the store's natural order; raises when the store is not available.
get_documents(dbv, coll, filter_dict, limit, store_ok) ==
    IF dbv = "None" \/ ~store_ok THEN StoreError
    ELSE Ok(find(coll, filter_dict, limit))

\* the loop body without `del d["_id"]`
expose_id_keep_native(d) ==
    IF "_id" \in DOMAIN d
    THEN [k \in DOMAIN d \cup {"id"} |-> IF k = "id" THEN str_oid(d["_id"]) ELSE d[k]]
    ELSE d

\* the loop body of list_shoes: _id becomes the string id
expose_id(d) ==
    IF "_id" \in DOMAIN d
    THEN [k \in (DOMAIN d \ {"_id"}) \cup {"id"} |->
             IF k = "id" THEN str_oid(d["_id"]) ELSE d[k]]
    ELSE d

\* GET /api/shoes
list_shoes_handler(dbv, coll, brand, featured, limit, store_ok) ==
    LET docs == get_documents(dbv, coll, build_filter(brand, featured), limit, store_ok)
    IN  IF ~docs.ok THEN docs
        ELSE Ok([items |-> [i \in 1..Len(docs.v) |-> expose_id(docs.v[i])]])

BrandQueries == {None, Some(""), Some("Nike"), Some("Puma")}

FeaturedQueries == {None, Some(TRUE), Some(FALSE)}

\* explicit limits, and the default of 50
Limits == (1..MaxLimit) \cup {50}

list_shoes ==
    /\ response = NoResponse
    /\ \E brand \in BrandQueries, featured \in FeaturedQueries, limit \in Limits,
          store_ok \in BOOLEAN :
          response' = Respond("list_shoes",
                              [brand |-> brand, featured |-> featured, limit |-> limit,
                               store_ok |-> store_ok],
                              200,
                              list_shoes_handler(db, shoe, brand, featured, limit, store_ok))
    /\ UNCHANGED <<db, shoe, oid_counter, clock, pc, count>>

(* ------------------------------ list brands --------------------------- *)

\* GET /api/brands
list_brands_handler(dbv, coll, store_ok) ==
    IF dbv /= "None"
    THEN IF store_ok THEN Ok([items |-> distinct(coll, "brand")]) ELSE StoreError
    ELSE Ok([items |-> <<>>])

list_brands ==
    /\ response = NoResponse
    /\ \E store_ok \in BOOLEAN :
          response' = Respond("list_brands", [store_ok |-> store_ok], 200,
                              list_brands_handler(db, shoe, store_ok))
    /\ UNCHANGED <<db, shoe, oid_counter, clock, pc, count>>

(* ------------------------------ seed demo data ------------------------ *)

demo_items(now) ==
    <<[name |-> "Air Zoom Bolt", brand |-> "Nike", price |-> 13999,
       description |-> Some("Responsive cushioning with a sleek, breathable upper."),
       images |-> <<"photo-1542291026-7eec264c27ff">>,
       colors |-> <<"Black", "White", "Volt">>,
       sizes |-> <<70, 80, 90, 100, 110, 120>>,
       featured |-> TRUE, rating |-> Some(46), in_stock |-> TRUE,
       created_at |-> now, updated_at |-> now],
      [name |-> "UltraRide Blaze", brand |-> "Puma", price |-> 11900,
       description |-> Some("Lightweight ride with energetic foam for daily training."),
       images |-> <<"photo-1525966222134-fcfa99b8ae77">>,
       colors |-> <<"Red", "Black">>,
       sizes |-> <<60, 70, 80, 90, 100, 110>>,
       featured |-> TRUE, rating |-> Some(44), in_stock |-> TRUE,
       created_at |-> now, updated_at |-> now],
      [name |-> "Air Max Nova", brand |-> "Nike", price |-> 15950,
       description |-> Some("Iconic Air unit comfort remixed for modern lifestyle."),
       images |-> <<"photo-1519741497674-611481863552">>,
       colors |-> <<"Blue", "White">>,
       sizes |-> <<70, 80, 90, 95, 100, 110>>,
       featured |-> FALSE, rating |-> Some(47), in_stock |-> TRUE,
       created_at |-> now, updated_at |-> now],
      [name |-> "RS-Fast Flux", brand |-> "Puma", price |-> 9999,
       description |-> Some("Bold DNA with next-gen cushioning and street-ready looks."),
       images |-> <<"photo-1542291020-23006e0e2f87">>,
       colors |-> <<"White", "Teal">>,
       sizes |-> <<60, 70, 80, 90, 100>>,
       featured |-> FALSE, rating |-> Some(42), in_stock |-> TRUE,
       created_at |-> now, updated_at |-> now]>>

\* the guard without its `count > 0` return
seed_guard_unchecked(dbv, coll, store_ok) ==
    IF dbv = "None"
    THEN [returns |-> TRUE, count |-> 0,
          result |-> Raise("HTTPException", 500, "Database not configured")]
    ELSE IF ~store_ok
    THEN [returns |-> TRUE, count |-> 0, result |-> StoreError]
    ELSE [returns |-> FALSE, count |-> 0, result |-> Ok(None)]

\* the guard degrading like list_brands when the handle is unset
seed_guard_lenient(dbv, coll, store_ok) ==
    IF dbv = "None"
    THEN [returns |-> TRUE, count |-> 0, result |-> Ok([inserted |-> 0])]
    ELSE IF ~store_ok
    THEN [returns |-> TRUE, count |-> 0, result |-> StoreError]
    ELSE LET c == count_documents(coll)
         IN  IF c > 0
             THEN [returns |-> TRUE, count |-> c,
                   result |-> Ok([message |-> "Already seeded", count |-> c])]
             ELSE [returns |-> FALSE, count |-> c, result |-> Ok(None)]

\* seed_demo_data up to its early returns: the handle check, the count, the
\* guard.  `returns` says whether the call ends here.
seed_guard(dbv, coll, store_ok) ==
    IF dbv = "None"
    THEN [returns |-> TRUE, count |-> 0,
          result |-> Raise("HTTPException", 500, "Database not configured")]
    ELSE IF ~store_ok
    THEN [returns |-> TRUE, count |-> 0, result |-> StoreError]
    ELSE LET c == count_documents(coll)
         IN  IF c > 0
             THEN [returns |-> TRUE, count |-> c,
                   result |-> Ok([message |-> "Already seeded", count |-> c])]
             ELSE [returns |-> FALSE, count |-> c, result |-> Ok(None)]

\* the insert replacing the collection instead of adding to it
seed_insert_replacing(coll, next, now, store_ok) ==
    IF ~store_ok
    THEN [result |-> StoreError, coll |-> coll, next |-> next]
    ELSE LET docs == with_ids(demo_items(now), next)
         IN  [result |-> Ok([inserted |-> Len(docs)]),
              coll |-> docs,
              next |-> next + Len(docs)]

\* the insert counting again and skipping a collection that is no longer empty
seed_insert_guarded(coll, next, now, store_ok) ==
    IF ~store_ok
    THEN [result |-> StoreError, coll |-> coll, next |-> next]
    ELSE IF count_documents(coll) > 0
    THEN [result |-> Ok([message |-> "Already seeded", count |-> count_documents(coll)]),
          coll |-> coll, next |-> next]
    ELSE LET docs == with_ids(demo_items(now), next)
         IN  [result |-> Ok([inserted |-> Len(docs)]),
              coll |-> coll \o docs,
              next |-> next + Len(docs)]

\* seed_demo_data from `now = ...` on: insert_many and the report
seed_insert(coll, next, now, store_ok) ==
    IF ~store_ok
    THEN [result |-> StoreError, coll |-> coll, next |-> next]
    ELSE LET docs == with_ids(demo_items(now), next)
         IN  [result |-> Ok([inserted |-> Len(docs)]),
              coll |-> coll \o docs,
              next |-> next + Len(docs)]

\* POST /api/seed, first store call: count_documents.  Request threads run
\* concurrently, so other requests may be served between this call and the
\* insert_many that follows it.
SeedCount(w) ==
    /\ response = NoResponse
    /\ pc[w] = "idle"
    /\ \E store_ok \in BOOLEAN :
          LET g == seed_guard(db, shoe, store_ok)
          IN  IF g.returns
              THEN /\ response' = Respond("seed_demo_data",
                                          [worker |-> w, store_ok |-> store_ok],
                                          200, g.result)
                   /\ UNCHANGED <<pc, count>>
              ELSE /\ pc' = [pc EXCEPT ![w] = "insert"]
                   /\ count' = [count EXCEPT ![w] = g.count]
                   /\ UNCHANGED response
    /\ UNCHANGED <<db, shoe, oid_counter, clock>>

\* POST /api/seed, second store call: insert_many
SeedInsert(w) ==
    /\ response = NoResponse
    /\ pc[w] = "insert"
    /\ \E store_ok \in BOOLEAN :
          LET h == seed_insert(shoe, oid_counter, clock, store_ok)
          IN  /\ response' = Respond("seed_demo_data",
                                      [worker |-> w, store_ok |-> store_ok],
                                      200, h.result)
              /\ shoe' = h.coll
              /\ oid_counter' = h.next
              /\ clock' = IF h.result.ok THEN clock + 1 ELSE clock
    /\ pc' = [pc EXCEPT ![w] = "idle"]
    /\ count' = [count EXCEPT ![w] = 0]
    /\ UNCHANGED db

\* GET /
read_root ==
    /\ response = NoResponse
    /\ response' = Respond("read_root", None, 200,
                           Ok([message |-> "Shoe Store Backend Running"]))
    /\ UNCHANGED <<db, shoe, oid_counter, clock, pc, count>>

\* GET /api/hello
hello ==
    /\ response = NoResponse
    /\ response' = Respond("hello", None, 200,
                           Ok([message |-> "Hello from the backend API!"]))
    /\ UNCHANGED <<db, shoe, oid_counter, clock, pc, count>>

\* The response leaves the server.  `response` holds the one response being
\* sent; it is read by no handler, so serving the next request only after this
\* step reaches the same collection states as overwriting it would.
send_response ==
    /\ response /= NoResponse
    /\ response' = NoResponse
    /\ UNCHANGED <<db, shoe, oid_counter, clock, pc, count>>

Next ==
    \/ read_root
    \/ hello
    \/ diagnostics
    \/ create_shoe
    \/ list_shoes
    \/ list_brands
    \/ \E w \in Workers : SeedCount(w)
    \/ \E w \in Workers : SeedInsert(w)
    \/ send_response

Spec == Init /\ [][Next]_vars

\* The same service when seed calls are made one at a time: no seed call starts
\* while another one is between its count and its insert.
SeqNext ==
    \/ read_root
    \/ hello
    \/ diagnostics
    \/ create_shoe
    \/ list_shoes
    \/ list_brands
    \/ \E w \in Workers : (\A v \in Workers : pc[v] = "idle") /\ SeedCount(w)
    \/ \E w \in Workers : SeedInsert(w)
    \/ send_response

SeqSpec == Init /\ [][SeqNext]_vars

(* ============================== properties ============================ *)

\* the documents written by the seed routine
seeded(coll) == SelectSeq(coll, LAMBDA d : "created_at" \in DOMAIN d)

\* a successful response of handler `op`
Replied(r, op) == r.op = op /\ r.status \in 200..299

ClientError(r) == r.status \in 400..499

\* value of a hexadecimal text, -1 if it is not one
RECURSIVE HexValue(_)
HexValue(t) ==
    IF t = <<>> THEN 0
    ELSE LET last == t[Len(t)]
             rest == HexValue(SubSeq(t, 1, Len(t) - 1))
         IN  IF rest < 0 \/ ~(\E k \in 1..16 : HexDigits[k] = last) THEN -1
             ELSE 16 * rest + (CHOOSE k \in 1..16 : HexDigits[k] = last) - 1

\* item is the listed form of stored document d: same fields and values, the
\* native identifier aside
ListedFrom(item, d) ==
    /\ DOMAIN item \ {"id", "_id"} = DOMAIN d \ {"_id"}
    /\ \A k \in DOMAIN d \ {"_id"} : item[k] = d[k]
    /\ "id" \in DOMAIN item
    /\ Len(item["id"]) = 24
    /\ HexValue(item["id"]) = d["_id"].oid

\* a create-shoe body the spec calls invalid: a required field missing, a
\* wrong type, price < 0, rating outside [0,5]
InvalidBody(body) ==
    \/ \E f \in {"name", "brand", "price"} : f \notin DOMAIN body
    \/ "str" \notin DOMAIN body.name
    \/ "str" \notin DOMAIN body.brand
    \/ "num" \notin DOMAIN body.price
    \/ body.price.num < 0
    \/ "rating" \in DOMAIN body /\ DOMAIN body.rating \cap {"num", "null"} = {}
    \/ "rating" \in DOMAIN body /\ "num" \in DOMAIN body.rating
          /\ (body.rating.num < 0 \/ body.rating.num > 50)
    \/ "featured" \in DOMAIN body /\ "bool" \notin DOMAIN body.featured

(* C1: every create-shoe request with an invalid payload is answered with a
   client error (4xx) and leaves the shoe collection as it was. *)
C1_InvalidCreateIsClientError ==
    /\ []((response.op = "create_shoe" /\ InvalidBody(response.req.body))
            => ClientError(response))
    /\ [][(response'.op = "create_shoe" /\ response = NoResponse
              /\ InvalidBody(response'.req.body))
            => shoe' = shoe]_vars

(* C2: with seed calls made one at a time and the store available, a seed call
   that finds the collection empty inserts four records and reports
   inserted = 4; a seed call on a collection of n > 0 records inserts nothing,
   leaves the collection unchanged and reports count = n; so the collection
   never holds more than the four records of the first seed call. *)
C2_SeedOnceSequential ==
    [][/\ \A w \in Workers :
            (pc[w] = "insert" /\ pc'[w] = "idle" /\ response'.req.store_ok)
               => /\ response'.status = 200
                  /\ response'.body = [inserted |-> 4]
                  /\ Len(shoe') = Len(shoe) + 4
                  /\ Len(seeded(shoe')) = 4
                  /\ SubSeq(shoe', 1, Len(shoe)) = shoe
       /\ (response'.op = "seed_demo_data" /\ response = NoResponse /\ pc' = pc
              /\ db /= "None" /\ response'.req.store_ok /\ Len(shoe) > 0)
               => /\ response'.status = 200
                  /\ response'.body = [message |-> "Already seeded", count |-> Len(shoe)]
                  /\ shoe' = shoe
       /\ Len(seeded(shoe')) <= 4]_vars

C2_Witness ==
    /\ Replied(response, "seed_demo_data")
    /\ response.body = [message |-> "Already seeded", count |-> 4]
    /\ Len(seeded(shoe)) = 4

\* what the spec says of a list-shoes response, `supplied` deciding when the
\* brand query constrains the result
ListShoesContract(supplied(_)) ==
    (response.op = "list_shoes" /\ db /= "None" /\ response.req.store_ok) =>
        LET q == response.req
            items == response.body.items
            fits(d) == /\ supplied(q.brand) => d.brand = q.brand[1]
                       /\ q.featured /= None => d.featured = q.featured[1]
        IN  /\ response.status = 200
            /\ Len(items) <= q.limit
            /\ \A i \in 1..Len(items) :
                  /\ fits(items[i])
                  /\ \E j \in 1..Len(shoe) : ListedFrom(items[i], shoe[j])
            /\ (\A j \in 1..Len(shoe) : ~fits(shoe[j])) => items = <<>>
            /\ (\E j \in 1..Len(shoe) : fits(shoe[j])) => items /= <<>>

(* C3, as claimed: the items of a list-shoes response are at most `limit`
   records of the collection, each with the supplied brand (when brand is
   supplied) and the supplied featured flag (when featured is supplied); an
   absent field does not constrain; no match gives an empty list, no error. *)
C3_ListFiltersAsClaimed ==
    ListShoesContract(LAMBDA brand : brand /= None)

(* C3, amended: as above, with the brand constraining the result only when a
   non-empty brand is supplied; an empty brand string constrains nothing. *)
C3_ListFilters ==
    ListShoesContract(LAMBDA brand : brand /= None /\ brand /= Some(""))

C3_Witness ==
    /\ Replied(response, "list_shoes")
    /\ response.req.brand = Some("Nike")
    /\ response.req.featured = Some(FALSE)
    /\ response.req.limit = 1
    /\ Len(response.body.items) = 1
    /\ Len(SelectSeq(shoe, LAMBDA d : d.brand = "Nike" /\ ~d.featured)) >= 2
    /\ \E j \in 1..Len(shoe) : shoe[j].brand = "Puma"

(* C4: every record returned by list-shoes carries an `id` that is the string
   form (24 hexadecimal characters) of the native identifier of the stored
   record it was read from, and carries no `_id`. *)
C4_IdMovedToString ==
    Replied(response, "list_shoes") =>
        \A i \in 1..Len(response.body.items) :
            LET item == response.body.items[i]
            IN  /\ "id" \in DOMAIN item
                /\ "_id" \notin DOMAIN item
                /\ DOMAIN item["id"] = 1..24
                /\ \A k \in 1..24 : \E h \in 1..16 : item["id"][k] = HexDigits[h]
                /\ \E j \in 1..Len(shoe) : ListedFrom(item, shoe[j])

C4_Witness ==
    /\ Replied(response, "list_shoes")
    /\ Len(response.body.items) >= 2
    /\ response.body.items[1]["id"] /= response.body.items[2]["id"]

(* C5: the diagnostics operation always answers 200: "not initialized" when the
   store handle is unset, the caught error text cut to 50 characters when
   listing collections fails, connected with at most 10 collection names when
   the store works. *)
C5_DiagnosticsNeverFails ==
    response.op = "test_database" =>
        LET lcn == response.req.lcn
            b == response.body
        IN  /\ response.status = 200
            /\ db = "None" =>
                  /\ b.database[1] = "Available but not initialized"
                  /\ b.collections = <<>>
            /\ (db /= "None" /\ ~lcn.ok) =>
                  /\ b.database[1] = "Connected but Error: "
                  /\ Len(b.database[2]) <= 50
                  /\ Len(b.database[2]) = Len(lcn.detail) \/ Len(b.database[2]) = 50
                  /\ \A i \in 1..Len(b.database[2]) : b.database[2][i] = lcn.detail[i]
            /\ (db /= "None" /\ lcn.ok) =>
                  /\ b.database[1] = "Connected & Working"
                  /\ b.connection_status = "Connected"
                  /\ Len(b.collections) <= 10
                  /\ Len(b.collections) = Len(lcn.v) \/ Len(b.collections) = 10
                  /\ \A i \in 1..Len(b.collections) : b.collections[i] = lcn.v[i]

C5_Witness ==
    /\ response.op = "test_database"
    /\ db /= "None"
    /\ ~response.req.lcn.ok
    /\ Len(response.req.lcn.detail) > 50
    /\ Len(response.body.database[2]) = 50

(* C6: list-brands never fails the request: with the store handle unset or the
   store access failing it answers successfully with an empty list, and with
   the store working it answers the distinct brands of the collection, each
   once. *)
C6_BrandsNeverFail ==
    response.op = "list_brands" =>
        /\ response.status = 200
        /\ (db = "None" \/ ~response.req.store_ok) => response.body.items = <<>>
        /\ (db /= "None" /\ response.req.store_ok) =>
              LET items == response.body.items
              IN  /\ {items[i] : i \in 1..Len(items)}
                        = {shoe[j].brand : j \in 1..Len(shoe)}
                  /\ \A i, k \in 1..Len(items) : items[i] = items[k] => i = k

(* C7: a seed call made while the store handle is unset fails with status 500
   and the detail "Database not configured"; a seed call whose store access
   fails is a 500 too; neither inserts a record nor answers successfully. *)
C7_SeedFailsWithoutStore ==
    [][(response'.op = "seed_demo_data" /\ response = NoResponse
            /\ (db = "None" \/ ~response'.req.store_ok))
          => /\ response'.status = 500
             /\ db = "None" => response'.body = [detail |-> "Database not configured"]
             /\ shoe' = shoe]_vars

C7_Witness ==
    /\ response.op = "seed_demo_data"
    /\ db = "None"
    /\ response.status = 500
    /\ response.body.detail = "Database not configured"

(* C8: the collection changes only by a successful create-shoe, which appends
   one record, or by a seed call that found the collection empty, which
   appends four; every other step leaves it unchanged, and every stored
   record stays in place with the same field values. *)
C8_OnlyCreateAndSeedWrite ==
    [][/\ Len(shoe') >= Len(shoe)
       /\ SubSeq(shoe', 1, Len(shoe)) = shoe
       /\ shoe' /= shoe =>
             \/ /\ response'.op = "create_shoe"
                /\ response'.status = 201
                /\ Len(shoe') = Len(shoe) + 1
             \/ /\ response'.op = "seed_demo_data"
                /\ response'.body = [inserted |-> 4]
                /\ Len(shoe') = Len(shoe) + 4
                /\ pc[response'.req.worker] = "insert"
                /\ count[response'.req.worker] = 0
       /\ (response' /= NoResponse /\ response = NoResponse) =>
             \/ shoe' = shoe
             \/ response'.op = "create_shoe" /\ response'.status = 201
             \/ response'.op = "seed_demo_data" /\ "inserted" \in DOMAIN response'.body]_vars

C8_Witness ==
    /\ Replied(response, "list_brands")
    /\ Len(created(shoe)) >= 1
    /\ Len(seeded(shoe)) = 4
    /\ shoe[1].brand = "Adidas"

(* C9: every stored shoe record has price >= 0, a rating that is absent or
   within [0,5], and an identifier no other stored record has. *)
C9_StoredRecordsValid ==
    \A i \in 1..Len(shoe) :
        /\ shoe[i].price >= 0
        /\ shoe[i].rating = None \/ (shoe[i].rating[1] >= 0 /\ shoe[i].rating[1] <= 50)
        /\ \A j \in 1..Len(shoe) : shoe[i]["_id"] = shoe[j]["_id"] => i = j

C9_Witness ==
    /\ Len(seeded(shoe)) = 4
    /\ \E i \in 1..Len(shoe) : shoe[i].price = 0 /\ shoe[i].rating = None
    /\ \E i \in 1..Len(shoe) : shoe[i].rating = Some(50)

(* C10: the insert of a seed call is not guarded again: a seed call that read
   count = 0 inserts its four records and reports inserted = 4 whatever the
   collection holds by then, so two overlapping seed calls leave eight seeded
   records. *)
C10_SeedInsertUnguarded ==
    [][\A w \in Workers :
          (pc[w] = "insert" /\ pc'[w] = "idle" /\ response'.req.store_ok)
             => /\ count[w] = 0
                /\ response'.body = [inserted |-> 4]
                /\ Len(seeded(shoe')) = Len(seeded(shoe)) + 4
                /\ SubSeq(shoe', 1, Len(shoe)) = shoe]_vars

C10_Witness ==
    /\ Len(seeded(shoe)) = 8
    /\ Len(shoe) = 8
    /\ Replied(response, "seed_demo_data")
    /\ response.body = [inserted |-> 4]
    /\ \A w \in Workers : pc[w] = "idle"

====
